---- MODULE Spec2Model ----
(***************************************************************************)
(* Model of the two plotting scripts of defi-flow:                         *)
(*   scripts/plot_allocations.py  (the allocation pipeline, plot())        *)
(*   scripts/plot_backtest.py     (the trajectory pipeline, main())        *)
(* Each script is a straight-line batch program; its statements are        *)
(* grouped into steps, one action per step, with a program counter.        *)
(*                                                                         *)
(* Numbers: CSV cells are strings that float() parses; amounts are kept in *)
(* fixed point, in half units (ParseFloat("0.5") = 1), so that a TVL       *)
(* strictly between 0 and the floor 1.0 exists.  Quotients are kept exact  *)
(* as records [num, den] instead of being rounded.                         *)
(***************************************************************************)
EXTENDS Integers, Sequences, FiniteSets, TLC

\* ------------------------------------------------------------------ bounds
MaxTicks == 2
MaxVenues == 2
MaxSims == 2

\* ----------------------------------------------------------------- helpers
Range(s) == {s[i] : i \in 1..Len(s)}

SeqsUpTo(S, n) == UNION {[1..k -> S] : k \in 0..n}

Max(a, b) == IF a >= b THEN a ELSE b

\* ------------------------------------------------ input parsing (both CSV)
\* int(): the decimal strings the tick and price files carry.
IntStrings == <<"0", "1", "2", "3", "4", "5", "6", "7">>
ParseInt(s) == (CHOOSE i \in 1..Len(IntStrings) : IntStrings[i] = s) - 1

\* float(): cell text to its value in half units.
ParseFloat(s) ==
    CASE s = "-1.0" -> -2
      [] s = "-0.5" -> -1
      [] s = "0"    -> 0
      [] s = "0.5"  -> 1
      [] s = "1.0"  -> 2
      [] s = "2.0"  -> 4

\* csv.DictReader: a row becomes a dict keyed by the header's names.  A name
\* that occurs twice in the header is one key, at its first position, holding
\* the value of its last occurrence.
RECURSIVE DictKeys(_)
DictKeys(header) ==
    IF header = <<>> THEN <<>>
    ELSE LET front == DictKeys(SubSeq(header, 1, Len(header) - 1))
             last  == header[Len(header)]
         IN IF last \in Range(front) THEN front ELSE Append(front, last)

LastIndex(header, c) ==
    CHOOSE i \in 1..Len(header) :
        header[i] = c /\ \A j \in (i + 1)..Len(header) : header[j] # c

RowDict(header, cells) == [c \in Range(header) |-> cells[LastIndex(header, c)]]

load_csv(file) == [i \in 1..Len(file.rows) |-> RowDict(file.header, file.rows[i])]

\* ======================================================================
\* The allocation pipeline: plot_allocations.py
\* ======================================================================
VARIABLES
    tick_file,          \* the tick CSV on disk: [header, rows]
    title_arg,          \* --title, or NoTitle
    spot_csv, perp_csv, \* whether --spot / --perp were given
    a_pc,               \* position in plot()
    ticks,              \* load_csv(tick_csv)
    tvl,                \* tvl column, parsed
    venue_cols,         \* the venue columns, header order
    venue_data,         \* venue column -> its parsed values
    ts_range,           \* <<ts_min, ts_max>>
    spot_prices, perp_prices,
    venue_cols_ordered, \* stacking order
    title,              \* the title drawn
    stack_top,          \* panel 2: top of the stacked area per tick
    tvl_line,           \* panel 2: the dashed TVL line per tick
    tvl_arr,            \* panel 3: floored TVL per tick
    pcts,               \* panel 3: venue column -> percentage per tick, [num, den]
    pct_top,            \* panel 3: top of the stacked percentages, [num, den]
    a_read,             \* files opened so far
    a_written,          \* image files written so far
    a_stdout,           \* lines printed
    a_exc               \* the exception that ended plot(), or "none"

allocVars == <<tick_file, title_arg, spot_csv, perp_csv, a_pc, ticks, tvl,
               venue_cols, venue_data, ts_range, spot_prices, perp_prices,
               venue_cols_ordered, title, stack_top, tvl_line, tvl_arr, pcts,
               pct_top, a_read, a_written, a_stdout, a_exc>>

NoTitle == "<None>"
TitleV2 == "v2: ETH Lending + Short Perp + USDC Lending  (group-aware rebalance)"
TitleV1 == "v1: Spot ETH + Short Perp + USDC Lending  (group-aware rebalance)"
TitleGeneric == "Backtest Allocations"

\* The fixed preference list of the stacking order.
order == <<"buy_eth", "lend_eth", "short_eth", "lend_idle", "lend_usdc">>

\* Venue names a tick CSV may carry: the known ones and two unknown ones.
VenueNames == Range(order) \cup {"pendle_pt", "aave_usdt"}

TvlCells == {"-1.0", "0", "0.5", "1.0", "2.0"}
VenueCells == {"-0.5", "0", "1.0"}

\* Tick files of the engine: header timestamp,tvl,<venue>...; row i carries
\* timestamp i (ascending, unique).
TickRow(i, tvlCell, venueCells) == <<IntStrings[i + 1], tvlCell>> \o venueCells

\* Files whose header varies (any venue names, repeated ones included) and
\* whose cells are fixed.
HeaderFiles ==
    {[header |-> <<"timestamp", "tvl">> \o vs,
      rows   |-> [i \in 1..n |-> TickRow(i, "2.0", [j \in 1..Len(vs) |-> "1.0"])]] :
        vs \in SeqsUpTo(VenueNames, MaxVenues), n \in 0..MaxTicks}

\* Files whose cells vary, under a header whose stacking order differs from
\* its column order.
ValueHeader == <<"timestamp", "tvl", "aave_usdt", "buy_eth">>
ValueFiles ==
    {[header |-> ValueHeader,
      rows   |-> [i \in 1..Len(cs) |-> TickRow(i, cs[i][1], <<cs[i][2], cs[i][3]>>)]] :
        cs \in SeqsUpTo(TvlCells \X VenueCells \X VenueCells, MaxTicks)}

\* The reference price files: one point per second around the tick range.
SpotFile == [header |-> <<"timestamp", "price">>,
             rows   |-> [i \in 1..(MaxTicks + 2) |-> <<IntStrings[i], "2.0">>]]
PerpFile == [header |-> <<"timestamp", "mark_price">>,
             rows   |-> [i \in 1..(MaxTicks + 2) |-> <<IntStrings[i], "1.0">>]]

AllocIdle ==
    /\ ticks = <<>> /\ tvl = <<>> /\ venue_cols = <<>> /\ venue_data = <<>>
    /\ ts_range = <<>> /\ spot_prices = <<>> /\ perp_prices = <<>>
    /\ venue_cols_ordered = <<>> /\ title = NoTitle
    /\ stack_top = <<>> /\ tvl_line = <<>> /\ tvl_arr = <<>>
    /\ pcts = <<>> /\ pct_top = <<>>
    /\ a_read = {} /\ a_written = {} /\ a_stdout = <<>> /\ a_exc = "none"

InitAlloc ==
    /\ \/ /\ tick_file \in HeaderFiles
          /\ title_arg \in {NoTitle, "", "My run"}
          /\ spot_csv \in BOOLEAN /\ perp_csv \in BOOLEAN
       \/ /\ tick_file \in ValueFiles
          /\ title_arg = NoTitle
          /\ spot_csv = TRUE /\ perp_csv = FALSE
    /\ a_pc = "start"
    /\ AllocIdle

\* Mutant: the empty check never fires.
NoTicksNever(t) == FALSE

\* `if not ticks:`
NoTicks(t) == Len(t) = 0

\* plot(), lines 35-38: load the ticks; with none, print the notice and return.
LoadTicks ==
    /\ a_pc = "start"
    /\ ticks' = load_csv(tick_file)
    /\ a_read' = a_read \cup {"tick_csv"}
    /\ IF NoTicks(ticks')
         THEN /\ a_stdout' = Append(a_stdout, "No tick data found")
              /\ a_pc' = "returned"
         ELSE /\ a_pc' = "loaded"
              /\ UNCHANGED a_stdout
    /\ UNCHANGED <<tick_file, title_arg, spot_csv, perp_csv, tvl, venue_cols,
                   venue_data, ts_range, spot_prices, perp_prices,
                   venue_cols_ordered, title, stack_top, tvl_line, tvl_arr,
                   pcts, pct_top, a_written, a_exc>>

\* `[k for k in ticks[0].keys() if k not in ("timestamp", "tvl")]`
VenueColumns(keys) == SelectSeq(keys, LAMBDA k : k \notin {"timestamp", "tvl"})

\* plot(), lines 40-54: the columns of the tick data.  ticks[0] of an empty
\* list is an IndexError.
ParseTicks ==
    /\ a_pc = "loaded"
    /\ IF ticks = <<>>
         THEN /\ a_pc' = "raised" /\ a_exc' = "IndexError"
              /\ UNCHANGED <<tvl, venue_cols, venue_data, ts_range>>
         ELSE LET cols == VenueColumns(DictKeys(tick_file.header))
                  ts   == [i \in 1..Len(ticks) |-> ParseInt(ticks[i]["timestamp"])]
              IN /\ tvl' = [i \in 1..Len(ticks) |-> ParseFloat(ticks[i]["tvl"])]
                 /\ venue_cols' = cols
                 /\ venue_data' = [c \in Range(cols) |->
                                     [i \in 1..Len(ticks) |-> ParseFloat(ticks[i][c])]]
                 /\ ts_range' = <<CHOOSE t \in Range(ts) : \A u \in Range(ts) : t <= u,
                                  CHOOSE t \in Range(ts) : \A u \in Range(ts) : t >= u>>
                 /\ a_pc' = "parsed"
                 /\ UNCHANGED a_exc
    /\ UNCHANGED <<tick_file, title_arg, spot_csv, perp_csv, ticks,
                   spot_prices, perp_prices, venue_cols_ordered, title,
                   stack_top, tvl_line, tvl_arr, pcts, pct_top, a_read,
                   a_written, a_stdout>>

\* The rows of a price file within [ts_min, ts_max], as <<timestamp, price>>.
InRange(file, col, rng) ==
    LET rows == load_csv(file)
        keep == SelectSeq(rows, LAMBDA r : /\ rng[1] <= ParseInt(r["timestamp"])
                                           /\ ParseInt(r["timestamp"]) <= rng[2])
    IN [i \in 1..Len(keep) |-> <<ParseInt(keep[i]["timestamp"]), ParseFloat(keep[i][col])>>]

\* plot(), lines 56-70: the reference prices, only of the files given.
LoadPrices ==
    /\ a_pc = "parsed"
    /\ spot_prices' = IF spot_csv THEN InRange(SpotFile, "price", ts_range) ELSE <<>>
    /\ perp_prices' = IF perp_csv THEN InRange(PerpFile, "mark_price", ts_range) ELSE <<>>
    /\ a_read' = a_read \cup (IF spot_csv THEN {"spot_csv"} ELSE {})
                        \cup (IF perp_csv THEN {"perp_csv"} ELSE {})
    /\ a_pc' = "priced"
    /\ UNCHANGED <<tick_file, title_arg, spot_csv, perp_csv, ticks, tvl,
                   venue_cols, venue_data, ts_range, venue_cols_ordered, title,
                   stack_top, tvl_line, tvl_arr, pcts, pct_top, a_written,
                   a_stdout, a_exc>>

\* Mutant: the remaining columns are appended without the membership test.
AppendAll(acc, cols) == acc \o cols

\* `for c in venue_cols: if c not in venue_cols_ordered: append`
RECURSIVE AppendRemaining(_, _)
AppendRemaining(acc, cols) ==
    IF cols = <<>> THEN acc
    ELSE AppendRemaining(IF cols[1] \in Range(acc) THEN acc ELSE Append(acc, cols[1]),
                         Tail(cols))

\* Mutant: only the preferred venues are stacked.
StackingOrderKnownOnly(cols) == SelectSeq(order, LAMBDA c : c \in Range(cols))

\* lines 88-93: the preferred venues present, then the remaining columns.
StackingOrder(cols) ==
    AppendRemaining(SelectSeq(order, LAMBDA c : c \in Range(cols)), cols)

\* Mutant: buy_eth is tested before lend_eth.
ChooseTitleBuyFirst(given, cols) ==
    IF given = NoTitle
      THEN IF "buy_eth" \in Range(cols) THEN TitleV1
           ELSE IF "lend_eth" \in Range(cols) THEN TitleV2
           ELSE TitleGeneric
      ELSE given

\* lines 96-104: the title, derived only when none was given.
ChooseTitle(given, cols) ==
    IF given = NoTitle
      THEN IF "lend_eth" \in Range(cols) THEN TitleV2
           ELSE IF "buy_eth" \in Range(cols) THEN TitleV1
           ELSE TitleGeneric
      ELSE given

\* plot(), lines 87-110: stacking order and title.
Arrange ==
    /\ a_pc = "priced"
    /\ venue_cols_ordered' = StackingOrder(venue_cols)
    /\ title' = ChooseTitle(title_arg, venue_cols)
    /\ a_pc' = "arranged"
    /\ UNCHANGED <<tick_file, title_arg, spot_csv, perp_csv, ticks, tvl,
                   venue_cols, venue_data, ts_range, spot_prices, perp_prices,
                   stack_top, tvl_line, tvl_arr, pcts, pct_top, a_read,
                   a_written, a_stdout, a_exc>>

\* `bottom = zeros(n); for col in cols: bottom += data[col]`
RECURSIVE Stack(_, _, _)
Stack(bottom, cols, data) ==
    IF cols = <<>> THEN bottom
    ELSE Stack([i \in 1..Len(bottom) |-> bottom[i] + data[cols[1]][i]], Tail(cols), data)

\* plot(), lines 123-146: the stacked venue values and the TVL line.
Panel2 ==
    /\ a_pc = "arranged"
    /\ stack_top' = Stack([i \in 1..Len(tvl) |-> 0], venue_cols_ordered, venue_data)
    /\ tvl_line' = tvl
    /\ a_pc' = "panel2"
    /\ UNCHANGED <<tick_file, title_arg, spot_csv, perp_csv, ticks, tvl,
                   venue_cols, venue_data, ts_range, spot_prices, perp_prices,
                   venue_cols_ordered, title, tvl_arr, pcts, pct_top, a_read,
                   a_written, a_stdout, a_exc>>

\* 1.0, the TVL floor of the percentage panel, in half units.
TvlFloor == 2

\* Mutant: the TVL is used unfloored.
FloorTvlNone(t) == t

\* `np.maximum(np.array(tvl), 1.0)`
FloorTvl(t) == [i \in 1..Len(t) |-> Max(t[i], TvlFloor)]

\* `vals / tvl_arr * 100`, exact
Percent(vals, arr) == [i \in 1..Len(vals) |-> [num |-> vals[i] * 100, den |-> arr[i]]]

\* plot(), lines 148-163: the stacked percentages of the floored TVL.
Panel3 ==
    /\ a_pc = "panel2"
    /\ LET arr == FloorTvl(tvl)
           p   == [c \in Range(venue_cols_ordered) |-> Percent(venue_data[c], arr)]
           nums == Stack([i \in 1..Len(tvl) |-> 0], venue_cols_ordered,
                         [c \in Range(venue_cols_ordered) |->
                            [i \in 1..Len(tvl) |-> p[c][i].num]])
       IN /\ tvl_arr' = arr
          /\ pcts' = p
          /\ pct_top' = [i \in 1..Len(tvl) |-> [num |-> nums[i], den |-> arr[i]]]
    /\ a_pc' = "panel3"
    /\ UNCHANGED <<tick_file, title_arg, spot_csv, perp_csv, ticks, tvl,
                   venue_cols, venue_data, ts_range, spot_prices, perp_prices,
                   venue_cols_ordered, title, stack_top, tvl_line, a_read,
                   a_written, a_stdout, a_exc>>

\* plot(), lines 165-171: write the image; a failed write raises.
SaveAlloc ==
    /\ a_pc = "panel3"
    /\ \/ /\ a_written' = a_written \cup {"output"}
          /\ a_stdout' = Append(a_stdout, "Saved: output")
          /\ a_pc' = "saved"
          /\ UNCHANGED a_exc
       \/ /\ a_exc' = "OSError"
          /\ a_pc' = "raised"
          /\ UNCHANGED <<a_written, a_stdout>>
    /\ UNCHANGED <<tick_file, title_arg, spot_csv, perp_csv, ticks, tvl,
                   venue_cols, venue_data, ts_range, spot_prices, perp_prices,
                   venue_cols_ordered, title, stack_top, tvl_line, tvl_arr,
                   pcts, pct_top, a_read>>

\* ======================================================================
\* The trajectory pipeline: plot_backtest.py
\* ======================================================================
VARIABLES
    argv_path,      \* whether the JSON path was given on the command line
    json_file,      \* the Backtest Result on disk
    b_pc,           \* position in main()
    b_step,         \* index of the next plot function main() calls
    data,           \* load_data(json_path)
    sim_matrix,     \* plot_trajectory: the simulation rows the bands use
    bands,          \* plot_trajectory: <<p5, p25, p75, p95>> (x100), or <<>>
    hist_line,      \* plot_trajectory: the historical line drawn
    pnl_pct,        \* plot_trajectory: the annotated return <<num, den>>, or <<>>
    bars,           \* plot_pnl_breakdown: the bars drawn
    b_written,      \* image files written so far, in order
    b_stdout,       \* lines printed
    failed_step,    \* index of the plot function that raised, or 0
    b_exc           \* the exception that ended main(), or "none"

btVars == <<argv_path, json_file, b_pc, b_step, data, sim_matrix, bands,
            hist_line, pnl_pct, bars, b_written, b_stdout, failed_step, b_exc>>

vars == <<allocVars, btVars>>

HistTvls == {-1, 0, 2}

\* One simulation of monte_carlo.simulations; its trajectory key may be absent.
SimTrajectories ==
    {[i \in 1..k |-> base + i] : k \in 0..(MaxTicks + 1), base \in {0, 3}}
Simulations ==
    {[has_trajectory |-> TRUE, trajectory |-> t] : t \in SimTrajectories}
        \cup {[has_trajectory |-> FALSE, trajectory |-> <<>>]}

\* monte_carlo: the key absent, null, or an object with its simulations.
MonteCarlos ==
    {[kind |-> k, simulations |-> <<>>] : k \in {"absent", "null"}}
        \cup {[kind |-> "object", simulations |-> ss] : ss \in SeqsUpTo(Simulations, MaxSims)}

PnlFields == {"funding_pnl", "lending_interest", "rewards_pnl", "premium_pnl",
              "lp_fees", "swap_costs"}
PnlAmounts == {-1, 0, 2}

Historical(traj, pnl) == [trajectory |-> traj, pnl |-> pnl]

\* Results whose trajectory and Monte Carlo part vary, and results whose PnL
\* categories vary.
TrajectoryResults ==
    {[historical  |-> Historical(traj, [f \in PnlFields |-> 2]),
      monte_carlo |-> mc] :
        traj \in SeqsUpTo(HistTvls, MaxTicks), mc \in MonteCarlos}
PnlResults ==
    {[historical  |-> Historical(<<2, 4>>, pnl),
      monte_carlo |-> [kind |-> "null", simulations |-> <<>>]] :
        pnl \in [PnlFields -> PnlAmounts]}

NoData == [historical  |-> Historical(<<>>, [f \in PnlFields |-> 0]),
           monte_carlo |-> [kind |-> "absent", simulations |-> <<>>]]

BtIdle ==
    /\ b_step = 1 /\ data = NoData
    /\ sim_matrix = <<>> /\ bands = <<>> /\ hist_line = <<>> /\ pnl_pct = <<>>
    /\ bars = <<>> /\ b_written = <<>> /\ b_stdout = <<>>
    /\ failed_step = 0 /\ b_exc = "none"

InitBacktest ==
    /\ \/ argv_path = TRUE /\ json_file \in TrajectoryResults \cup PnlResults
       \/ argv_path = FALSE /\ json_file = NoData
    /\ b_pc = "start"
    /\ BtIdle

\* Mutant: the first two calls are swapped.
MainStepsSwapped == <<"plot_pnl_breakdown", "plot_trajectory", "plot_mc_distribution">>

\* The plot functions main() calls, in order (lines 201-203).
MainSteps == <<"plot_trajectory", "plot_pnl_breakdown", "plot_mc_distribution">>

Calling(f) == b_pc = "call" /\ b_step <= Len(MainSteps) /\ MainSteps[b_step] = f

\* main(), lines 193-200: the usage check and load_data.
LoadData ==
    /\ b_pc = "start"
    /\ IF argv_path
         THEN /\ data' = json_file
              /\ b_pc' = "call"
              /\ UNCHANGED <<b_stdout, b_exc>>
         ELSE /\ b_stdout' = Append(b_stdout, "Usage")
              /\ b_exc' = "SystemExit"
              /\ b_pc' = "exited"
              /\ UNCHANGED data
    /\ UNCHANGED <<argv_path, json_file, b_step, sim_matrix, bands, hist_line,
                   pnl_pct, bars, b_written, failed_step>>

\* `mc and mc["simulations"]`: null, an absent key and an empty list are falsy.
HasSimulations(mc) == mc.kind = "object" /\ mc.simulations # <<>>

\* `s.get("trajectory", [])`
SimTrajectory(s) == IF s.has_trajectory THEN s.trajectory ELSE <<>>

\* `len(st) >= n_ticks`
Qualifies(st, n_ticks) == Len(st) >= n_ticks

\* lines 38-42: one row per qualifying simulation, cut to n_ticks.
SimMatrix(sims, n_ticks) ==
    LET keep == SelectSeq(sims, LAMBDA s : Qualifies(SimTrajectory(s), n_ticks))
    IN [k \in 1..Len(keep) |-> SubSeq(SimTrajectory(keep[k]), 1, n_ticks)]

RECURSIVE Insert(_, _)
Insert(x, s) ==
    IF s = <<>> THEN <<x>>
    ELSE IF x <= s[1] THEN <<x>> \o s ELSE <<s[1]>> \o Insert(x, Tail(s))

RECURSIVE Sorted(_)
Sorted(s) == IF s = <<>> THEN <<>> ELSE Insert(s[1], Sorted(Tail(s)))

\* np.percentile(col, q), linear interpolation, times 100.
Percentile100(col, q) ==
    LET a    == Sorted(col)
        pos  == q * (Len(a) - 1)
        lo   == pos \div 100
        frac == pos % 100
    IN IF lo + 2 <= Len(a)
         THEN 100 * a[lo + 1] + frac * (a[lo + 2] - a[lo + 1])
         ELSE 100 * a[Len(a)]

\* np.percentile(arr, q, axis=0): per tick index, across the rows.
BandLine(matrix, n_ticks, q) ==
    [t \in 1..n_ticks |-> Percentile100([k \in 1..Len(matrix) |-> matrix[k][t]], q)]

\* lines 33-50: the bands, drawn only from a non-empty matrix.
Bands(mc, n_ticks) ==
    IF HasSimulations(mc) /\ SimMatrix(mc.simulations, n_ticks) # <<>>
      THEN LET m == SimMatrix(mc.simulations, n_ticks)
           IN <<BandLine(m, n_ticks, 5), BandLine(m, n_ticks, 25),
                BandLine(m, n_ticks, 75), BandLine(m, n_ticks, 95)>>
      ELSE <<>>

\* line 66: `(final_tvl / tvls[0] - 1) * 100`, exact; the caller has
\* tvls[0] # 0.
PnlPct(tvls) == <<(tvls[Len(tvls)] - tvls[1]) * 100, tvls[1]>>

Abort(exc) ==
    /\ b_exc' = exc /\ failed_step' = b_step /\ b_pc' = "aborted"
    /\ UNCHANGED <<b_step, b_written, b_stdout>>

Saved(name) ==
    \/ /\ b_written' = Append(b_written, name)
       /\ b_stdout' = Append(b_stdout, "Saved")
       /\ b_step' = b_step + 1
       /\ UNCHANGED <<b_pc, b_exc, failed_step>>
    \/ Abort("OSError")

\* plot_trajectory(), lines 23-95.  tvls[0] of an empty trajectory is an
\* IndexError (line 53); the annotation divides by tvls[0] unguarded (line 66).
PlotTrajectory ==
    /\ Calling("plot_trajectory")
    /\ LET tvls == data.historical.trajectory
           mc   == data.monte_carlo
       IN /\ sim_matrix' = IF HasSimulations(mc)
                             THEN SimMatrix(mc.simulations, Len(tvls)) ELSE <<>>
          /\ bands' = Bands(mc, Len(tvls))
          /\ hist_line' = tvls
          /\ IF tvls = <<>>
               THEN Abort("IndexError") /\ UNCHANGED pnl_pct
               ELSE IF tvls[1] = 0
                 THEN Abort("ZeroDivisionError") /\ UNCHANGED pnl_pct
                 ELSE pnl_pct' = PnlPct(tvls) /\ Saved("trajectory.png")
    /\ UNCHANGED <<argv_path, json_file, data, bars>>

\* Mutant: swap costs keep their stored sign.
BarValuesNoFlip(h) ==
    <<h.pnl["funding_pnl"], h.pnl["lending_interest"], h.pnl["rewards_pnl"],
      h.pnl["premium_pnl"], h.pnl["lp_fees"], h.pnl["swap_costs"]>>

\* lines 102-109: the six values, swap costs negated.
BarValues(h) ==
    <<h.pnl["funding_pnl"], h.pnl["lending_interest"], h.pnl["rewards_pnl"],
      h.pnl["premium_pnl"], h.pnl["lp_fees"], -h.pnl["swap_costs"]>>

\* line 111
BarColor(v) == IF v >= 0 THEN "#2ecc71" ELSE "#e74c3c"

Categories == <<"Funding", "Lending", "Rewards", "Premium", "LP Fees", "Swap Costs">>

\* plot_pnl_breakdown(), lines 98-144.
PlotPnlBreakdown ==
    /\ Calling("plot_pnl_breakdown")
    /\ LET values == BarValues(data.historical)
       IN bars' = [k \in 1..Len(Categories) |->
                     [category |-> Categories[k], value |-> values[k],
                      color |-> BarColor(values[k])]]
    /\ Saved("pnl_breakdown.png")
    /\ UNCHANGED <<argv_path, json_file, data, sim_matrix, bands, hist_line, pnl_pct>>

\* plot_mc_distribution(), lines 147-189: returns at once without simulations.
PlotMcDistribution ==
    /\ Calling("plot_mc_distribution")
    /\ IF ~HasSimulations(data.monte_carlo)
         THEN /\ b_step' = b_step + 1
              /\ UNCHANGED <<b_pc, b_written, b_stdout, failed_step, b_exc>>
         ELSE Saved("mc_distributions.png")
    /\ UNCHANGED <<argv_path, json_file, data, sim_matrix, bands, hist_line,
                   pnl_pct, bars>>

\* main(), line 204.
Finish ==
    /\ b_pc = "call" /\ b_step > Len(MainSteps)
    /\ b_stdout' = Append(b_stdout, "Done.")
    /\ b_pc' = "done"
    /\ UNCHANGED <<argv_path, json_file, b_step, data, sim_matrix, bands,
                   hist_line, pnl_pct, bars, b_written, failed_step, b_exc>>

\* ======================================================================
\* One invocation runs one of the two scripts; the other one stays idle.
\* ======================================================================
AllocParked ==
    /\ tick_file = [header |-> <<>>, rows |-> <<>>] /\ title_arg = NoTitle
    /\ spot_csv = FALSE /\ perp_csv = FALSE /\ a_pc = "idle" /\ AllocIdle

BacktestParked ==
    /\ argv_path = FALSE /\ json_file = NoData /\ b_pc = "idle" /\ BtIdle

Init ==
    \/ InitAlloc /\ BacktestParked
    \/ InitBacktest /\ AllocParked

Next ==
    \/ LoadTicks /\ UNCHANGED btVars
    \/ ParseTicks /\ UNCHANGED btVars
    \/ LoadPrices /\ UNCHANGED btVars
    \/ Arrange /\ UNCHANGED btVars
    \/ Panel2 /\ UNCHANGED btVars
    \/ Panel3 /\ UNCHANGED btVars
    \/ SaveAlloc /\ UNCHANGED btVars
    \/ LoadData /\ UNCHANGED allocVars
    \/ PlotTrajectory /\ UNCHANGED allocVars
    \/ PlotPnlBreakdown /\ UNCHANGED allocVars
    \/ PlotMcDistribution /\ UNCHANGED allocVars
    \/ Finish /\ UNCHANGED allocVars

Spec == Init /\ [][Next]_vars

\* ======================================================================
\* Properties
\* ======================================================================
RECURSIVE SetSum(_, _)
SetSum(S, f) ==
    IF S = {} THEN 0
    ELSE LET x == CHOOSE y \in S : TRUE IN f[x] + SetSum(S \ {x}, f)

\* The venue columns of the tick file, read off its header.
HeaderVenues == Range(tick_file.header) \ {"timestamp", "tvl"}

\* The sum of the venue cells of row i of the tick file.
VenueSum(i) == SetSum(HeaderVenues, [c \in HeaderVenues |-> ParseFloat(ticks[i][c])])

Panel2Drawn == tvl_line # <<>>
Panel3Drawn == pct_top # <<>>
Arranged == a_pc \in {"arranged", "panel2", "panel3", "saved"}
                \/ (a_pc = "raised" /\ a_exc = "OSError")

\* C1: with a header-only tick CSV, plot() prints the notice and returns:
\* no exception, only the tick file was opened (no price file), and no image
\* was written.
C1_EmptyTicksNoOp ==
    (a_pc \notin {"idle", "start"} /\ tick_file.rows = <<>>) =>
        /\ a_pc = "returned"
        /\ a_exc = "none"
        /\ a_stdout = <<"No tick data found">>
        /\ a_read = {"tick_csv"}
        /\ a_written = {}

C1_Witness ==
    /\ a_pc = "returned" /\ tick_file.rows = <<>>
    /\ spot_csv /\ perp_csv /\ Len(tick_file.header) > 2

\* C4 (as claimed): at every tick the top of the stacked venue area equals
\* the TVL line.
C4_StackTopIsTvlLine ==
    Panel2Drawn => \A i \in 1..Len(tvl_line) : stack_top[i] = tvl_line[i]

\* C4 (amended): at every tick the top of the stacked venue area is the sum
\* of the tick's venue cells and the TVL line is the tick's tvl cell; the two
\* coincide exactly at the ticks whose tvl cell equals that sum.
C4_StackTopIsVenueSum ==
    Panel2Drawn =>
        /\ Len(stack_top) = Len(tick_file.rows)
        /\ Len(tvl_line) = Len(tick_file.rows)
        /\ \A i \in 1..Len(tick_file.rows) :
              /\ stack_top[i] = VenueSum(i)
              /\ tvl_line[i] = ParseFloat(ticks[i]["tvl"])
              /\ (stack_top[i] = tvl_line[i]) <=> (VenueSum(i) = ParseFloat(ticks[i]["tvl"]))

C4_Witness ==
    /\ Panel2Drawn /\ Len(tvl_line) >= 2 /\ Len(venue_cols_ordered) >= 2
    /\ \E i \in 1..Len(tvl_line) : stack_top[i] = tvl_line[i] /\ tvl_line[i] # 0
    /\ \E i \in 1..Len(tvl_line) : stack_top[i] # tvl_line[i]

\* The sum of the venue percentages at tick i, over the denominator
\* tvl_arr[i].
PctSumNum(i) == SetSum(HeaderVenues, [c \in HeaderVenues |-> pcts[c][i].num])

PctFormula(i) ==
    \A c \in HeaderVenues :
        /\ pcts[c][i] = [num |-> 100 * ParseFloat(ticks[i][c]),
                         den |-> Max(ParseFloat(ticks[i]["tvl"]), TvlFloor)]
        /\ pcts[c][i].den > 0

\* C5 (as claimed): each percentage is value / max(tvl, 1.0) * 100 with a
\* positive divisor, and the percentages of a tick sum to at most 100 unless
\* the floor was applied at that tick (tvl < 1.0).
C5_PctSumAtMost100 ==
    Panel3Drawn =>
        \A i \in 1..Len(tick_file.rows) :
            /\ PctFormula(i)
            /\ tvl[i] >= TvlFloor => PctSumNum(i) <= 100 * tvl_arr[i]

\* C5 (amended): each percentage is value / max(tvl, 1.0) * 100 with a
\* positive divisor, and the percentages of a tick sum to at most 100 exactly
\* when the tick's venue values sum to at most max(tvl, 1.0), floor applied
\* or not.
C5_PctSumFollowsVenueSum ==
    Panel3Drawn =>
        \A i \in 1..Len(tick_file.rows) :
            /\ PctFormula(i)
            /\ pct_top[i] = [num |-> PctSumNum(i), den |-> tvl_arr[i]]
            /\ (PctSumNum(i) <= 100 * tvl_arr[i])
                   <=> (VenueSum(i) <= Max(ParseFloat(ticks[i]["tvl"]), TvlFloor))

C5_Witness ==
    /\ Panel3Drawn
    /\ \E i \in 1..Len(tvl) : tvl[i] >= TvlFloor /\ PctSumNum(i) > 100 * tvl_arr[i]
    /\ \E i \in 1..Len(tvl) : tvl[i] <= 0 /\ PctSumNum(i) <= 100 * tvl_arr[i]

\* C7: the title is the override whenever one is given; otherwise v2 if the
\* header has lend_eth, else v1 if it has buy_eth, else the generic title.
C7_TitlePrecedence ==
    Arranged =>
        title = IF title_arg # NoTitle THEN title_arg
                ELSE IF "lend_eth" \in HeaderVenues THEN TitleV2
                ELSE IF "buy_eth" \in HeaderVenues THEN TitleV1
                ELSE TitleGeneric

C7_Witness ==
    /\ Arranged /\ title_arg = NoTitle /\ title = TitleV2
    /\ {"lend_eth", "buy_eth"} \subseteq HeaderVenues

FirstIndex(s, c) == CHOOSE i \in 1..Len(s) : s[i] = c /\ \A j \in 1..(i - 1) : s[j] # c

\* a is stacked before b: preferred venues by the preference list, before all
\* others; the others by first appearance in the header.
StackedBefore(a, b) ==
    IF a \in Range(order) /\ b \in Range(order)
      THEN FirstIndex(order, a) < FirstIndex(order, b)
    ELSE IF a \in Range(order) THEN TRUE
    ELSE IF b \in Range(order) THEN FALSE
    ELSE FirstIndex(tick_file.header, a) < FirstIndex(tick_file.header, b)

\* C9: the stacking order holds every header column other than timestamp and
\* tvl exactly once and nothing else: the preferred venues present, in the
\* preference list's order, then the other columns in header order.
C9_StackingOrderPermutation ==
    Arranged =>
        /\ Range(venue_cols_ordered) = HeaderVenues
        /\ Len(venue_cols_ordered) = Cardinality(HeaderVenues)
        /\ \A i, j \in 1..Len(venue_cols_ordered) :
              i < j => StackedBefore(venue_cols_ordered[i], venue_cols_ordered[j])

C9_Witness ==
    /\ Arranged
    /\ tick_file.header = <<"timestamp", "tvl", "pendle_pt", "short_eth">>
    /\ venue_cols_ordered = <<"short_eth", "pendle_pt">>

\* ------------------------------------------------ the trajectory pipeline
OutNames == <<"trajectory.png", "pnl_breakdown.png", "mc_distributions.png">>

Terminated == b_pc \in {"done", "aborted"}
TrajectoryRan == b_pc \in {"call", "done", "aborted"} /\ (b_step > 1 \/ failed_step = 1)
PnlRan == b_pc \in {"call", "done", "aborted"} /\ (b_step > 2 \/ failed_step = 2)

\* Monte Carlo data is missing: null, no key, or no simulations.
MissingMC ==
    \/ json_file.monte_carlo.kind \in {"absent", "null"}
    \/ json_file.monte_carlo.simulations = <<>>

\* C2: with Monte Carlo data missing from a result with a historical
\* trajectory, main() finishes without error having written exactly
\* trajectory.png and pnl_breakdown.png (the disk accepting every write).
C2_MissingMCWritesTwo ==
    (Terminated /\ MissingMC /\ json_file.historical.trajectory # <<>>
        /\ b_exc # "OSError") =>
        /\ b_pc = "done" /\ b_exc = "none"
        /\ b_written = <<"trajectory.png", "pnl_breakdown.png">>

\* What does hold of the C2 inputs: mc_distributions.png is never written,
\* and the two other files are written unless the initial TVL is zero (the
\* unguarded division of C3).
MissingMCNeverWritesMc ==
    MissingMC => "mc_distributions.png" \notin Range(b_written)

MissingMCWritesTwoUnlessZero ==
    (Terminated /\ MissingMC /\ json_file.historical.trajectory # <<>>
        /\ b_exc \notin {"OSError", "ZeroDivisionError"}) =>
        /\ b_pc = "done" /\ b_exc = "none"
        /\ b_written = <<"trajectory.png", "pnl_breakdown.png">>

\* C3: the annotated return is (final/initial - 1) * 100 for a positive
\* initial TVL and zero for a non-positive one, and no division error is
\* raised.
C3_ReturnGuarded ==
    (TrajectoryRan /\ data.historical.trajectory # <<>>) =>
        LET tvls == data.historical.trajectory
        IN /\ b_exc # "ZeroDivisionError"
           /\ pnl_pct # <<>>
           /\ IF tvls[1] > 0
                THEN pnl_pct = <<(tvls[Len(tvls)] - tvls[1]) * 100, tvls[1]>>
                ELSE pnl_pct[1] = 0

\* C6: the files written so far are always a prefix of trajectory.png,
\* pnl_breakdown.png, mc_distributions.png; when step N raises, main() has
\* ended with exactly the files of the steps before N on disk.
C6_WrittenIsPrefix ==
    /\ Len(b_written) <= Len(OutNames)
    /\ b_written = SubSeq(OutNames, 1, Len(b_written))
    /\ b_pc = "aborted" =>
          /\ failed_step \in 1..Len(OutNames)
          /\ Len(b_written) = failed_step - 1
    /\ failed_step # 0 => b_pc = "aborted"

C6_Witness ==
    /\ b_pc = "aborted" /\ failed_step = 2 /\ b_written = <<"trajectory.png">>

\* The simulations of the input that carry a trajectory of at least n ticks.
QualifyingSims(n) ==
    SelectSeq(json_file.monte_carlo.simulations,
              LAMBDA s : s.has_trajectory /\ Len(s.trajectory) >= n)

\* C8: the bands use exactly the simulations with at least as many ticks as
\* the historical trajectory, each cut to that length, tick by tick; the
\* others are left out without error, and with no qualifying simulation no
\* band is drawn while the historical line and trajectory.png are produced.
C8_BandsFromQualifyingSims ==
    (TrajectoryRan /\ json_file.historical.trajectory # <<>> /\ b_exc # "OSError") =>
        LET tvls == json_file.historical.trajectory
            q    == QualifyingSims(Len(tvls))
        IN /\ sim_matrix = [k \in 1..Len(q) |-> SubSeq(q[k].trajectory, 1, Len(tvls))]
           /\ (bands # <<>>) <=> (q # <<>>)
           /\ bands # <<>> => \A b \in 1..4 : Len(bands[b]) = Len(tvls)
           /\ q = <<>> =>
                 /\ hist_line = tvls
                 /\ "trajectory.png" \in Range(b_written)
                 /\ b_exc = "none"

\* What does hold of C8: the selection, truncation and alignment of the
\* simulations, and the omitted bands; trajectory.png follows unless the
\* initial TVL is zero (the unguarded division of C3).
BandsUseQualifyingSims ==
    (TrajectoryRan /\ json_file.historical.trajectory # <<>>) =>
        LET tvls == json_file.historical.trajectory
            q    == QualifyingSims(Len(tvls))
        IN /\ sim_matrix = [k \in 1..Len(q) |-> SubSeq(q[k].trajectory, 1, Len(tvls))]
           /\ (bands # <<>>) <=> (q # <<>>)
           /\ hist_line = tvls
           /\ b_exc = "none" => "trajectory.png" \in Range(b_written)
           /\ b_exc \in {"none", "OSError", "ZeroDivisionError"}
           /\ b_exc = "ZeroDivisionError" => tvls[1] = 0

\* C10: the six bars are funding_pnl, lending_interest, rewards_pnl,
\* premium_pnl, lp_fees and minus swap_costs, in this order; a bar is green
\* when its drawn value is >= 0 and red otherwise.
C10_BarsSignConvention ==
    PnlRan =>
        LET h == json_file.historical.pnl
            stored == <<h["funding_pnl"], h["lending_interest"], h["rewards_pnl"],
                        h["premium_pnl"], h["lp_fees"], h["swap_costs"]>>
        IN /\ Len(bars) = 6
           /\ \A k \in 1..5 : bars[k].value = stored[k]
           /\ bars[6].value = 0 - stored[6]
           /\ \A k \in 1..6 :
                 bars[k].color = IF bars[k].value >= 0 THEN "#2ecc71" ELSE "#e74c3c"

C10_Witness ==
    /\ PnlRan
    /\ json_file.historical.pnl["swap_costs"] = 2 /\ bars[6].color = "#e74c3c"
    /\ json_file.historical.pnl["funding_pnl"] = -1 /\ bars[1].color = "#e74c3c"
    /\ json_file.historical.pnl["lp_fees"] = 0 /\ bars[5].color = "#2ecc71"
====
